---- MODULE Spec2Model ----
(***************************************************************************)
(* Verification model of the gateway-api swap services:                    *)
(*   - Uniswap  (src/src/services/uniswap.js): constructor, fetch_route,   *)
(*     swapExactIn, swapExactOut, and the trade computation it calls;      *)
(*   - Ethereum (src/unnamed/part_000): constructor, token list, and the   *)
(*     wallet / token operations that catch their own failures;            *)
(*   - the ethereum routes (src/unnamed/part_001): /allowances, /approve   *)
(*     and /poll.                                                          *)
(* Each component has its own specification; the variables of the other    *)
(* components stay at their idle values.                                   *)
(***************************************************************************)
EXTENDS Integers, Sequences, FiniteSets, TLC

VARIABLES
    \* ---- route resolver (Uniswap.fetch_route)
    pools,        \* pair contracts deployed on chain: a set of two-token sets
    tokenIn,      \* argument tokenIn
    tokenOut,     \* argument tokenOut
    rPc,          \* position of the async function
    fetchLog,     \* pair-data fetches issued so far, in order, with their outcome
    route,        \* value the promise resolved with (NoRoute while there is none)
    rErr,         \* error the promise rejected with ("none" while there is none)
    \* ---- swap submission (Uniswap.swapExactIn / swapExactOut) and /poll
    txs,          \* the node's view of each transaction hash
    height,       \* number of the latest block
    now,          \* chain time, in seconds
    sPc,          \* position of the swap call in flight
    sDir,         \* "ExactIn" or "ExactOut": which of the two swap methods
    sDeadline,    \* deadline encoded in the call (0 before it is computed)
    sTx,          \* hash of the transaction the call broadcast (0: none)
    sResult,      \* what the call returned or threw
    pollLog,      \* responses of the /poll handler so far, in order
    \* ---- trade computation (uni.Trade.exactIn / exactOut on one pair)
    reserveIn,    \* the pair's reserve of the input token
    reserveOut,   \* the pair's reserve of the output token
    amountIn,     \* the exact-in amount X
    cPc,          \* position of the computation
    counterAmount,\* output amount Y of the exact-in trade
    requiredIn,   \* input amount of the exact-out trade for Y
    cErr,         \* error thrown by the computation ("none" while there is none)
    \* ---- service construction and the Ethereum service's operations
    instances,    \* outcome of each constructor call so far, in order
    callLog,      \* outcome of each Ethereum operation called so far, in order
    \* ---- the /allowances and /approve handlers
    hPc,          \* position of the handler
    req,          \* the request being handled
    responses,    \* responses written to the client for this request, in order
    sendAttempts, \* number of times the handler called res.send / res.json
    lookups,      \* service calls the handler made, each with the spender passed
    served        \* number of requests handled before this one

routeVars == <<pools, tokenIn, tokenOut, rPc, fetchLog, route, rErr>>
swapVars == <<txs, height, now, sPc, sDir, sDeadline, sTx, sResult, pollLog>>

calcVars == <<reserveIn, reserveOut, amountIn, cPc, counterAmount, requiredIn, cErr>>

serviceVars == <<instances, callLog>>

httpVars == <<hPc, req, responses, sendAttempts, lookups, served>>

vars == <<routeVars, swapVars, calcVars, serviceVars, httpVars>>

-----------------------------------------------------------------------------
(* Bounds *)
NTokens == 2
MaxTx == 2
MaxPolls == 3
MaxElapse == 1
MaxReserveIn == 3
SmallReserveOut == 8
LargeReserveOut == 1000
MaxAmountIn == 100
MaxInstances == 2
MaxCalls == 2
MaxTokenList == 2
MaxRequests == 2

-----------------------------------------------------------------------------
(* Swap submission: Uniswap.swapExactIn / swapExactOut, the node, and the   *)
(* /poll handler                                                            *)

\* const TTL = 60
TTL == 60

Hashes == 1..MaxTx

NoTx == [state |-> "none", blockNumber |-> 0, status |-> 0, deadline |-> 0]

NoResult == [kind |-> "none", txHash |-> 0, blockNumber |-> 0, status |-> 0]

SwapIdle ==
    /\ txs = [h \in Hashes |-> NoTx]
    /\ height = 0
    /\ now = 0
    /\ sPc = "idle"
    /\ sDir = "none"
    /\ sDeadline = 0
    /\ sTx = 0
    /\ sResult = NoResult
    /\ pollLog = <<>>

SwapInit == SwapIdle

\* The hashes no transaction has taken yet.
FreeHashes == {h \in Hashes : txs[h].state = "none"}

\* The receipt of an included transaction.
ReceiptOf(h) ==
    [txHash |-> h, blockNumber |-> txs[h].blockNumber, status |-> txs[h].status]

\* The call is made: swapExactIn or swapExactOut.  Lines 48-53 / 71-76:
\* the token read and Router.swapCallParameters, which encodes the deadline
\* as the caller's clock plus TTL.  The caller's clock is the chain's, or
\* lags it by more than the TTL.
SwapCall ==
    /\ sPc = "idle"
    /\ FreeHashes # {}
    /\ \E dir \in {"ExactIn", "ExactOut"}, lag \in {0, 2 * TTL} :
         /\ sDir' = dir
         /\ sDeadline' = (now - lag) + TTL
    /\ sPc' = "send"
    /\ sTx' = 0
    /\ sResult' = NoResult
    /\ UNCHANGED <<txs, height, now, pollLog>>

\* Lines 56-63 / 79-86: the router method is sent.  The node takes the
\* transaction into its pending pool and the await resolves with the
\* transaction response, or the send fails and the call rejects.
SwapSend ==
    /\ sPc = "send"
    /\ \E accepted \in BOOLEAN :
         IF accepted
         THEN \E h \in FreeHashes :
                /\ h = CHOOSE x \in FreeHashes : \A y \in FreeHashes : x <= y
                /\ txs' = [txs EXCEPT ![h] = [state |-> "pending", blockNumber |-> 0,
                                             status |-> 0, deadline |-> sDeadline]]
                /\ sTx' = h
                /\ sPc' = "wait"
                /\ sResult' = sResult
         ELSE /\ sPc' = "threw"
              /\ sResult' = [NoResult EXCEPT !.kind = "sendError"]
              /\ UNCHANGED <<txs, sTx>>
    /\ UNCHANGED <<height, now, sDir, sDeadline, pollLog>>

\* Lines 66-67 / 89-90: await tx.wait() resolves once the transaction is in
\* a block: with the receipt when it succeeded, by throwing when it reverted.
SwapWait ==
    /\ sPc = "wait"
    /\ txs[sTx].state = "mined"
    /\ IF txs[sTx].status = 1
       THEN /\ sPc' = "returned"
            /\ sResult' = [ReceiptOf(sTx) EXCEPT !.kind = "receipt"]
       ELSE /\ sPc' = "threw"
            /\ sResult' = [ReceiptOf(sTx) EXCEPT !.kind = "callException"]
    /\ UNCHANGED <<txs, height, now, sDir, sDeadline, sTx, pollLog>>

\* The caller makes its next request.
SwapNextRequest ==
    /\ sPc \in {"returned", "threw"}
    /\ FreeHashes # {}
    /\ sPc' = "idle"
    /\ UNCHANGED <<txs, height, now, sDir, sDeadline, sTx, sResult, pollLog>>

\* The node includes a pending transaction in the next block.  Past its
\* deadline the router call reverts; before it, it may still revert
\* (slippage exceeded, allowance missing).
Mine(h) ==
    /\ txs[h].state = "pending"
    /\ \E st \in {0, 1} :
         /\ (now > txs[h].deadline) => st = 0
         /\ txs' = [txs EXCEPT ![h] = [state |-> "mined", blockNumber |-> height + 1,
                                      status |-> st, deadline |-> txs[h].deadline]]
    /\ height' = height + 1
    /\ UNCHANGED <<now, sPc, sDir, sDeadline, sTx, sResult, pollLog>>

\* Time passes on the chain.
Elapse ==
    /\ now < MaxElapse * TTL
    /\ now' = now + TTL
    /\ UNCHANGED <<txs, height, sPc, sDir, sDeadline, sTx, sResult, pollLog>>

\* ethereumService.getTransactionReceipt(txHash): the answers the node can
\* give.  <<>> stands for null.  For a pending transaction a node answers
\* null, or a receipt that has no block number yet (0 stands for null).
getTransactionReceipt(h) ==
    CASE txs[h].state = "none" -> {<<>>}
      [] txs[h].state = "pending" ->
            {<<>>, <<[txHash |-> h, blockNumber |-> 0, status |-> 0]>>}
      [] txs[h].state = "mined" -> {<<ReceiptOf(h)>>}

\* Any receipt taken for a confirmation.
ConfirmedIfAnyReceipt(receipt) == receipt # <<>>

\* line 207: receipt && receipt.blockNumber ? true : false
PollConfirmed(receipt) == receipt # <<>> /\ receipt[1].blockNumber # 0

\* lines 209-216: the response body (network, timestamp and latency left
\* out), with the state of the transaction at the time of the poll.
PollResponse(h, receipt) ==
    [txHash    |-> h,
     confirmed |-> PollConfirmed(receipt),
     receipt   |-> IF PollConfirmed(receipt) THEN receipt ELSE <<>>,
     included  |-> txs[h].state = "mined"]

\* router.post('/poll')
Poll(h) ==
    /\ Len(pollLog) < MaxPolls
    /\ \E receipt \in getTransactionReceipt(h) :
         pollLog' = Append(pollLog, PollResponse(h, receipt))
    /\ UNCHANGED <<txs, height, now, sPc, sDir, sDeadline, sTx, sResult>>

\* C3: the swap call completes on acceptance: it is never left waiting on a
\* transaction that the node has accepted and not yet included, and what it
\* returns is the handle of the transaction, whether or not it is included.
C3_SubmitReturnsOnAcceptance ==
    /\ (sTx # 0 /\ txs[sTx].state = "pending") => sPc # "wait"
    /\ sPc = "returned" => sResult.kind = "handle"

\* The polls of one hash, as pairs of positions in the log, earlier first.
PollPairs ==
    {<<i, j>> \in (1..Len(pollLog)) \X (1..Len(pollLog)) :
        i < j /\ pollLog[i].txHash = pollLog[j].txHash}

\* C4: every poll made before inclusion reports pending with an empty
\* receipt, every poll made after inclusion reports confirmed with the
\* transaction's receipt, and after a poll that reported confirmed every
\* later poll of the same hash reports confirmed with the identical receipt.
C4_PollIdempotent ==
    /\ \A i \in 1..Len(pollLog) :
         IF pollLog[i].included
         THEN /\ pollLog[i].confirmed
              /\ pollLog[i].receipt = <<ReceiptOf(pollLog[i].txHash)>>
         ELSE /\ ~pollLog[i].confirmed
              /\ pollLog[i].receipt = <<>>
    /\ \A pr \in PollPairs :
         pollLog[pr[1]].confirmed =>
            /\ pollLog[pr[2]].confirmed
            /\ pollLog[pr[2]].receipt = pollLog[pr[1]].receipt

C4_Witness ==
    \E pr \in PollPairs :
        /\ ~pollLog[pr[1]].confirmed
        /\ pollLog[pr[2]].confirmed
        /\ Len(pollLog) = 3
        /\ pollLog[3].txHash = pollLog[pr[2]].txHash
        /\ pollLog[3].receipt = pollLog[pr[2]].receipt
        /\ pr[2] < 3

\* C5: a transaction that is included and reverts reaches the caller as a
\* confirmed receipt with a failure flag: the swap call that sent it does
\* not throw, and a poll after inclusion reports it confirmed with status 0.
C5_RevertIsAReceipt ==
    /\ \A h \in Hashes :
         (txs[h].state = "mined" /\ txs[h].status = 0 /\ sTx = h) => sPc # "threw"
    /\ \A i \in 1..Len(pollLog) :
         (pollLog[i].included /\ txs[pollLog[i].txHash].status = 0) =>
            /\ pollLog[i].confirmed
            /\ pollLog[i].receipt[1].status = 0

-----------------------------------------------------------------------------
(* Trade computation: what uni.Trade.exactIn and uni.Trade.exactOut compute *)
(* on a one-pair route (swapExactIn line 51, swapExactOut line 74)          *)

\* The pair's fee: 997/1000 of the input takes part in the swap.
FeeNumerator == 997
FeeDenominator == 1000

Failed(e) == [ok |-> FALSE, amount |-> 0, err |-> e]
Amount(n) == [ok |-> TRUE, amount |-> n, err |-> "none"]

\* The output amount computed without the fee.
getOutputAmountNoFee(rin, rout, x) ==
    IF rin = 0 \/ rout = 0 THEN Failed("InsufficientReserves")
    ELSE IF (x * rout) \div (rin + x) = 0 THEN Failed("InsufficientInputAmount")
    ELSE Amount((x * rout) \div (rin + x))

\* Pair.getOutputAmount: constant product with the fee taken from the input,
\* truncating division.
getOutputAmount(rin, rout, x) ==
    IF rin = 0 \/ rout = 0 THEN Failed("InsufficientReserves")
    ELSE LET inputAmountWithFee == x * FeeNumerator
             numerator   == inputAmountWithFee * rout
             denominator == rin * FeeDenominator + inputAmountWithFee
         IN IF numerator \div denominator = 0
            THEN Failed("InsufficientInputAmount")
            ELSE Amount(numerator \div denominator)

\* Pair.getInputAmount: the truncated quotient plus one.
getInputAmount(rin, rout, y) ==
    IF rin = 0 \/ rout = 0 \/ y >= rout THEN Failed("InsufficientReserves")
    ELSE LET numerator   == rin * y * FeeDenominator
             denominator == (rout - y) * FeeNumerator
         IN Amount(numerator \div denominator + 1)

CalcIdle ==
    /\ reserveIn = 0
    /\ reserveOut = 0
    /\ amountIn = 0
    /\ cPc = "idle"
    /\ counterAmount = 0
    /\ requiredIn = 0
    /\ cErr = "none"

CalcInit ==
    /\ reserveIn \in 0..MaxReserveIn
    /\ reserveOut \in (0..SmallReserveOut)
                      \cup (LargeReserveOut..(LargeReserveOut + SmallReserveOut))
    /\ amountIn \in 1..MaxAmountIn
    /\ cPc = "exactIn"
    /\ counterAmount = 0
    /\ requiredIn = 0
    /\ cErr = "none"

\* uni.Trade.exactIn(route, X) on the pair.
ExactIn ==
    /\ cPc = "exactIn"
    /\ LET r == getOutputAmount(reserveIn, reserveOut, amountIn)
       IN IF r.ok
          THEN cPc' = "exactOut" /\ counterAmount' = r.amount /\ cErr' = cErr
          ELSE cPc' = "failed" /\ counterAmount' = counterAmount /\ cErr' = r.err
    /\ UNCHANGED <<reserveIn, reserveOut, amountIn, requiredIn>>

\* uni.Trade.exactOut(route, Y) on the same reserves.
ExactOut ==
    /\ cPc = "exactOut"
    /\ LET r == getInputAmount(reserveIn, reserveOut, counterAmount)
       IN IF r.ok
          THEN cPc' = "done" /\ requiredIn' = r.amount /\ cErr' = cErr
          ELSE cPc' = "failed" /\ requiredIn' = requiredIn /\ cErr' = r.err
    /\ UNCHANGED <<reserveIn, reserveOut, amountIn, counterAmount>>

\* The exact-in division left no remainder.
ExactInIsExact ==
    (amountIn * FeeNumerator * reserveOut)
        % (reserveIn * FeeDenominator + amountIn * FeeNumerator) = 0

\* C6 as stated: the exact-out trade for Y asks for at most X.
C6_RoundTripAtMostX == cPc = "done" => requiredIn <= amountIn

\* C6 amended: the exact-out trade for Y asks for at most X + 1, and for
\* more than X only when the exact-in division left no remainder.
C6_RoundTripAtMostXPlusOne ==
    cPc = "done" =>
        /\ requiredIn <= amountIn + 1
        /\ requiredIn > amountIn => ExactInIsExact

C6_Witness ==
    /\ cPc = "done"
    /\ counterAmount > 0
    /\ requiredIn = amountIn + 1

-----------------------------------------------------------------------------
(* Service construction (Uniswap.constructor, Ethereum.constructor with     *)
(* getERC20TokenList) and the Ethereum service's operations                 *)

\* The network argument; "undefined" takes the parameter's default.
Networks == {"kovan", "mainnet", "ropsten", "undefined"}

ServiceIdle ==
    /\ instances = <<>>
    /\ callLog = <<>>

ServiceInit == ServiceIdle

\* new Uniswap(network): lines 11-27.  The default is 'kovan'; any network
\* other than 'kovan' and 'mainnet' throws.
UniswapConstructor(network) ==
    LET n == IF network = "undefined" THEN "kovan" ELSE network
    IN IF n = "kovan"
       THEN [service |-> "Uniswap", network |-> n, built |-> TRUE,
             err |-> "none", chainID |-> "KOVAN", tokenList |-> "none",
             listResult |-> "none"]
       ELSE IF n = "mainnet"
       THEN [service |-> "Uniswap", network |-> n, built |-> TRUE,
             err |-> "none", chainID |-> "MAINNET", tokenList |-> "none",
             listResult |-> "none"]
       ELSE [service |-> "Uniswap", network |-> n, built |-> FALSE,
             err |-> "Invalid network", chainID |-> "none", tokenList |-> "none",
             listResult |-> "none"]

\* Ethereum.getERC20TokenList: lines 167-206, as <<token list, value the
\* promise resolves with>>.  Everything thrown inside is caught and comes
\* back as a reason string.  On mainnet the list is fetched only when the
\* current list is undefined, null or identical to a fresh {}: the field
\* starts as {} and no object is identical to a fresh one, so it is not.
getERC20TokenList(network, fileReadable) ==
    IF network = "kovan"
    THEN IF fileReadable THEN <<"kovanFile", "undefined">>
         ELSE <<"empty", "error ERC 20 Token List">>
    ELSE IF network = "mainnet"
    THEN <<"empty", "undefined">>
    ELSE <<"empty", "error ERC 20 Token List">>

\* new Ethereum(network): lines 23-32.  The default is 'mainnet'.  The
\* constructor stores the network and starts getERC20TokenList, whose
\* promise it drops; the function runs to its end before the constructor
\* returns, having no await on these paths.
EthereumConstructor(network, fileReadable) ==
    LET n == IF network = "undefined" THEN "mainnet" ELSE network
        l == getERC20TokenList(n, fileReadable)
    IN [service |-> "Ethereum", network |-> n, built |-> TRUE,
        err |-> "none", chainID |-> "none", tokenList |-> l[1],
        listResult |-> l[2]]

NewUniswap ==
    /\ Len(instances) < MaxInstances
    /\ \E network \in Networks :
         instances' = Append(instances, UniswapConstructor(network))
    /\ UNCHANGED callLog

NewEthereum ==
    /\ Len(instances) < MaxInstances
    /\ \E network \in Networks, fileReadable \in BOOLEAN :
         instances' = Append(instances, EthereumConstructor(network, fileReadable))
    /\ UNCHANGED callLog

\* The operations of the Ethereum service that wrap a call to the chain.
Operations ==
    {"getETHBalance", "getERC20Balance", "getERC20Allowance", "approveERC20",
     "getCurrentGasPrice", "deposit"}

\* How the wrapped call ends: it resolves, it rejects with an error that
\* carries a reason, or it rejects with one that does not.
CallEnds == {"resolves", "rejectsWithReason", "rejects"}

\* The fallback text of each catch block.
FallbackReason(op) ==
    CASE op = "getETHBalance"      -> "error ETH balance lookup"
      [] op = "getERC20Balance"    -> "error balance lookup"
      [] op = "getERC20Allowance"  -> "error allowance lookup"
      [] op = "approveERC20"       -> "error approval"
      [] op = "getCurrentGasPrice" -> "error gas lookup"
      [] op = "deposit"            -> "error deposit"

\* What the operation gives its caller.  Lines 35-121 and 139-164: the
\* value, or from the catch block the error's reason or the fallback text,
\* returned as a string.  Lines 124-137 (getCurrentGasPrice): the promise
\* chain is neither awaited nor returned, so the function returns undefined
\* however the call ends, and the catch block never sees a rejection.
EthereumOperation(op, ends) ==
    IF op = "getCurrentGasPrice"
    THEN [op |-> op, ends |-> ends, kind |-> "undefined", text |-> "none"]
    ELSE IF ends = "resolves"
    THEN [op |-> op, ends |-> ends, kind |-> "value", text |-> "none"]
    ELSE IF ends = "rejectsWithReason"
    THEN [op |-> op, ends |-> ends, kind |-> "string", text |-> "err.reason"]
    ELSE [op |-> op, ends |-> ends, kind |-> "string", text |-> FallbackReason(op)]

\* An operation is called on an Ethereum instance.
Call ==
    /\ Len(callLog) < MaxCalls
    /\ \E i \in 1..Len(instances) : instances[i].service = "Ethereum"
    /\ \E op \in Operations, ends \in CallEnds :
         callLog' = Append(callLog, EthereumOperation(op, ends))
    /\ UNCHANGED instances

\* C7: a constructor called for a network other than 'kovan' and 'mainnet'
\* throws at once and yields no instance, for Uniswap and for Ethereum.
C7_InvalidNetworkFailsConstruction ==
    \A i \in 1..Len(instances) :
        instances[i].network \notin {"kovan", "mainnet"} =>
            /\ ~instances[i].built
            /\ instances[i].err = "Invalid network"

\* C8: every failed call reaches the caller as a typed error: never as a
\* string returned in place of the value, never as a normal return.
C8_FailuresAreTypedErrors ==
    \A i \in 1..Len(callLog) :
        callLog[i].ends # "resolves" => callLog[i].kind = "typedError"

-----------------------------------------------------------------------------
(* The /allowances and /approve handlers                                    *)

NoRequest ==
    [handler |-> "none", spender |-> "undefined", walletOk |-> FALSE,
     knownTokens |-> 0, callEnds |-> "none"]

HttpIdle ==
    /\ hPc = "idle"
    /\ req = NoRequest
    /\ responses = <<>>
    /\ sendAttempts = 0
    /\ lookups = <<>>
    /\ served = 0

HttpInit == HttpIdle

\* The requests: the handler; config.spenders[req.body.connector], a
\* spender address or undefined; whether getWallet takes the private key;
\* how many of the requested tokens the service knows (for /approve: whether
\* it knows the one token); how the awaited service calls end.
Requests ==
    [handler : {"allowances", "approve"},
     spender : {"undefined", "0xSpender"},
     walletOk : BOOLEAN,
     knownTokens : 0..MaxTokenList,
     callEnds : {"resolves", "rejects"}]

\* res.status(code).send(body) / .json(body) on a response: the first one
\* is written to the client; a later one throws (the headers are sent).
CanSend(sent) == sent = <<>>

Sent(sent, code, body) ==
    IF CanSend(sent) THEN Append(sent, [status |-> code, body |-> body]) ELSE sent

\* A sequence of n lookups with the spender s.
RECURSIVE Lookups(_, _, _)
Lookups(op, s, n) ==
    IF n = 0 THEN <<>>
    ELSE Append(Lookups(op, s, n - 1), [op |-> op, spender |-> s])

\* Lines 92-95 / 147-150, as <<responses, attempts>> after the spender
\* check: without a spender the handler sends 500 'Wrong connector', and
\* goes on, there being no return after the send.
AfterSpenderCheck(r) ==
    IF r.spender = "undefined"
    THEN <<Sent(<<>>, 500, "Wrong connector"), 1>>
    ELSE <<<<>>, 0>>

\* The catch block of either handler (lines 137-139 / 198-200): it sends
\* 500 'Error getting wallet'; when that send throws, the handler's promise
\* rejects.
CatchBlock(sent, attempts) ==
    [pc        |-> IF CanSend(sent) THEN "done" ELSE "rejected",
     responses |-> Sent(sent, 500, "Error getting wallet"),
     attempts  |-> attempts + 1]

\* A send inside the try block: what it throws lands in the catch block.
TrySend(sent, attempts, code, body) ==
    IF CanSend(sent)
    THEN [pc |-> "done", responses |-> Sent(sent, code, body),
          attempts |-> attempts + 1]
    ELSE CatchBlock(sent, attempts + 1)

\* A request arrives.  The handler runs to its first await: the spender
\* check; getWallet; then for /allowances the token list and one
\* getERC20Allowance call per known token (lines 99-121), for /approve the
\* token lookup and the approveERC20 call (lines 153-183).
HandleRequest ==
    /\ hPc = "idle"
    /\ served < MaxRequests
    /\ \E r \in Requests :
         /\ r.handler = "approve" => r.knownTokens <= 1
         /\ req' = r
         /\ LET a == AfterSpenderCheck(r)
            IN IF ~r.walletOk
               THEN LET c == CatchBlock(a[1], a[2])
                    IN /\ hPc' = c.pc
                       /\ responses' = c.responses
                       /\ sendAttempts' = c.attempts
                       /\ lookups' = <<>>
               ELSE IF r.handler = "approve" /\ r.knownTokens = 0
               THEN LET t == TrySend(a[1], a[2], 500, "Token is not supported")
                    IN /\ hPc' = t.pc
                       /\ responses' = t.responses
                       /\ sendAttempts' = t.attempts
                       /\ lookups' = <<>>
               ELSE /\ hPc' = "awaiting"
                    /\ responses' = a[1]
                    /\ sendAttempts' = a[2]
                    /\ lookups' =
                         IF r.handler = "approve"
                         THEN Lookups("approveERC20", r.spender, 1)
                         ELSE Lookups("getERC20Allowance", r.spender, r.knownTokens)
    /\ UNCHANGED served

\* The awaited calls have settled (a rejection is caught next to the call
\* and put in the body, lines 122-126 / 184-186): the handler sends its 200
\* response (lines 130-136 / 188-196).
Respond ==
    /\ hPc = "awaiting"
    /\ LET body == IF req.callEnds = "resolves" \/ lookups = <<>>
                   THEN "json" ELSE "json holding the error"
           t == TrySend(responses, sendAttempts, 200, body)
       IN /\ hPc' = t.pc
          /\ responses' = t.responses
          /\ sendAttempts' = t.attempts
    /\ UNCHANGED <<req, lookups, served>>

\* The next request, with a response object of its own.
NextRequest ==
    /\ hPc \in {"done", "rejected"}
    /\ served + 1 < MaxRequests
    /\ hPc' = "idle"
    /\ req' = NoRequest
    /\ responses' = <<>>
    /\ sendAttempts' = 0
    /\ lookups' = <<>>
    /\ served' = served + 1

HandlerSettled == hPc \in {"done", "rejected"}

\* C10: a handled request has exactly one response and one send; without a
\* spender that response is 500 'Wrong connector' and no allowance lookup
\* and no approve call is made with the missing spender.
C10_OneResponsePerRequest ==
    HandlerSettled =>
        /\ hPc = "done"
        /\ Len(responses) = 1
        /\ sendAttempts = 1
        /\ req.spender = "undefined" =>
              /\ responses[1] = [status |-> 500, body |-> "Wrong connector"]
              /\ \A i \in 1..Len(lookups) : lookups[i].spender # "undefined"

-----------------------------------------------------------------------------
(* Route resolver: Uniswap.fetch_route                                      *)

Tokens == 0..NTokens

\* uni.WETH[this.chainID]: the bridge asset; an address among the others
WETH == 1

NoRoute == [pairs |-> <<>>, path |-> <<>>]

PairSets == {{a, b} : a \in Tokens, b \in Tokens} \ {{t} : t \in Tokens}

Min2(a, b) == IF a <= b THEN a ELSE b
Max2(a, b) == IF a <= b THEN b ELSE a

\* A Pair as the SDK builds it: its two tokens sorted by address.
PairOf(a, b) == [token0 |-> Min2(a, b), token1 |-> Max2(a, b)]

involvesToken(pair, t) == t = pair.token0 \/ t = pair.token1

\* The outcome of uni.Fetcher.fetchPairData(a, b) when the node answers:
\* the same token twice fails the SDK's address-order invariant, a pair
\* without a deployed contract fails the reserves call.
fetchPairData(a, b) ==
    IF a = b THEN "Addresses"
    ELSE IF {a, b} \in pools THEN "ok"
    ELSE "NoLiquidity"

\* The outcomes a fetch can complete with: the node's answer, or a transient
\* RPC failure when a call goes to the node at all.
FetchOutcomes(a, b) ==
    IF a = b THEN {fetchPairData(a, b)} ELSE {fetchPairData(a, b), "Rpc"}

RECURSIVE RoutePath(_, _)
\* new uni.Route: walk the pairs from the input token; each pair must hold
\* the current token and contributes its other token.  <<>> when the walk
\* fails (the constructor throws).
RoutePath(pairs, path) ==
    IF pairs = <<>> THEN path
    ELSE LET cur == path[Len(path)]
             p   == Head(pairs)
         IN IF ~involvesToken(p, cur) THEN <<>>
            ELSE RoutePath(Tail(pairs),
                           Append(path, IF cur = p.token0 THEN p.token1 ELSE p.token0))

RouteNew(pairs, input, output) ==
    IF /\ Len(pairs) > 0
       /\ involvesToken(pairs[1], input)
       /\ involvesToken(pairs[Len(pairs)], output)
       /\ RoutePath(pairs, <<input>>) # <<>>
    THEN [pairs |-> pairs, path |-> RoutePath(pairs, <<input>>)]
    ELSE NoRoute

\* The arguments of the three fetchPairData calls.
DirectArgs == <<tokenIn, tokenOut>>
LegOneArgs == <<tokenIn, WETH>>
\* The second leg fetched for the input token again.
LegTwoArgsOfInput == <<tokenIn, WETH>>
LegTwoArgs == <<tokenOut, WETH>>

Issue(args) == Append(fetchLog, [a |-> args[1], b |-> args[2], outcome |-> "pending"])

Complete(o) == [fetchLog EXCEPT ![Len(fetchLog)].outcome = o]

\* The route built in the try block (line 36) and the one built in the
\* catch block (line 42), each from the pairs the fetches returned.
DirectRoute ==
    RouteNew(<<PairOf(DirectArgs[1], DirectArgs[2])>>, tokenIn, tokenOut)
BridgedRoute ==
    RouteNew(<<PairOf(LegOneArgs[1], LegOneArgs[2]),
               PairOf(LegTwoArgs[1], LegTwoArgs[2])>>, tokenIn, tokenOut)

RouteIdle ==
    /\ pools = {}
    /\ tokenIn = WETH
    /\ tokenOut = WETH
    /\ rPc = "idle"
    /\ fetchLog = <<>>
    /\ route = NoRoute
    /\ rErr = "none"

RouteInit ==
    /\ pools \in SUBSET PairSets
    /\ tokenIn \in Tokens
    /\ tokenOut \in Tokens
    /\ rPc = "fetchTokens"
    /\ fetchLog = <<>>
    /\ route = NoRoute
    /\ rErr = "none"

\* lines 31-32: the two token-data reads; a failed read rejects the call.
FetchTokenData ==
    /\ rPc = "fetchTokens"
    /\ \E ok \in BOOLEAN :
         IF ok THEN rPc' = "try" /\ rErr' = rErr
         ELSE rPc' = "rejected" /\ rErr' = "Rpc"
    /\ UNCHANGED <<pools, tokenIn, tokenOut, fetchLog, route>>

\* line 35: the direct fetch is issued.
IssueDirect ==
    /\ rPc = "try"
    /\ fetchLog' = Issue(DirectArgs)
    /\ rPc' = "awaitDirect"
    /\ UNCHANGED <<pools, tokenIn, tokenOut, route, rErr>>

\* lines 35-38: the direct fetch completes; success builds the one-pair
\* route and returns it; whatever is thrown inside the try block, by the
\* fetch or by the Route constructor, enters the catch block.
CompleteDirect ==
    /\ rPc = "awaitDirect"
    /\ \E o \in FetchOutcomes(DirectArgs[1], DirectArgs[2]) :
         /\ fetchLog' = Complete(o)
         /\ IF o = "ok" /\ DirectRoute # NoRoute
            THEN rPc' = "returned" /\ route' = DirectRoute
            ELSE rPc' = "catch" /\ route' = route
    /\ UNCHANGED <<pools, tokenIn, tokenOut, rErr>>

\* line 40: the first bridge leg is issued.
IssueLegOne ==
    /\ rPc = "catch"
    /\ fetchLog' = Issue(LegOneArgs)
    /\ rPc' = "awaitLegOne"
    /\ UNCHANGED <<pools, tokenIn, tokenOut, route, rErr>>

\* A first leg whose failure is swallowed: the call goes on to the second
\* leg and returns whatever pairs it has.
CompleteLegOneSwallowed ==
    /\ rPc = "awaitLegOne"
    /\ \E o \in FetchOutcomes(LegOneArgs[1], LegOneArgs[2]) :
         /\ fetchLog' = Complete(o)
         /\ IF o = "ok"
            THEN rPc' = "legTwo" /\ route' = route
            ELSE rPc' = "returned"
                 /\ route' = [pairs |-> <<>>, path |-> <<tokenIn>>]
    /\ UNCHANGED <<pools, tokenIn, tokenOut, rErr>>

\* line 40: the first leg completes; its failure rejects the call.
CompleteLegOne ==
    /\ rPc = "awaitLegOne"
    /\ \E o \in FetchOutcomes(LegOneArgs[1], LegOneArgs[2]) :
         /\ fetchLog' = Complete(o)
         /\ IF o = "ok"
            THEN rPc' = "legTwo" /\ rErr' = rErr
            ELSE rPc' = "rejected" /\ rErr' = o
    /\ UNCHANGED <<pools, tokenIn, tokenOut, route>>

\* line 41: the second bridge leg is issued, after the first has completed.
IssueLegTwo ==
    /\ rPc = "legTwo"
    /\ fetchLog' = Issue(LegTwoArgs)
    /\ rPc' = "awaitLegTwo"
    /\ UNCHANGED <<pools, tokenIn, tokenOut, route, rErr>>

\* lines 41-44: the second leg completes; success builds the two-pair route.
CompleteLegTwo ==
    /\ rPc = "awaitLegTwo"
    /\ \E o \in FetchOutcomes(LegTwoArgs[1], LegTwoArgs[2]) :
         /\ fetchLog' = Complete(o)
         /\ IF o # "ok"
            THEN rPc' = "rejected" /\ route' = route /\ rErr' = o
            ELSE IF BridgedRoute = NoRoute
            THEN rPc' = "rejected" /\ route' = route /\ rErr' = "RouteInvariant"
            ELSE rPc' = "returned" /\ route' = BridgedRoute /\ rErr' = rErr
    /\ UNCHANGED <<pools, tokenIn, tokenOut>>


RouteSettled == rPc \in {"returned", "rejected"}

\* No read of the call failed transiently.
NoRpcFailure ==
    /\ rErr # "Rpc"
    /\ \A i \in 1..Len(fetchLog) : fetchLog[i].outcome # "Rpc"

Occurrences(seq, x) == Cardinality({i \in 1..Len(seq) : seq[i] = x})

DirectPool == {tokenIn, tokenOut} \in pools
LegOnePool == {tokenIn, WETH} \in pools
LegTwoPool == {WETH, tokenOut} \in pools

\* C1: once fetch_route has settled without a transient read failure, a
\* direct pool for (input, output) gives the one-pair route input -> output,
\* and no direct pool but both bridge legs gives the two-pair route
\* input -> bridge -> output, with the bridge asset exactly once in the path.
C1_RouteResolution ==
    (RouteSettled /\ NoRpcFailure) =>
        /\ DirectPool =>
              /\ rPc = "returned"
              /\ route.pairs = <<PairOf(tokenIn, tokenOut)>>
              /\ route.path = <<tokenIn, tokenOut>>
        /\ (~DirectPool /\ LegOnePool /\ LegTwoPool) =>
              /\ rPc = "returned"
              /\ route.pairs = <<PairOf(tokenIn, WETH), PairOf(WETH, tokenOut)>>
              /\ route.path = <<tokenIn, WETH, tokenOut>>
              /\ Occurrences(route.path, WETH) = 1

C1_Witness ==
    /\ rPc = "returned"
    /\ NoRpcFailure
    /\ ~DirectPool
    /\ Len(route.pairs) = 2
    /\ tokenIn # tokenOut

C9_FallbackOnlyWithoutPool ==
    Len(fetchLog) >= 2 => fetchLog[1].outcome \notin {"pending", "ok", "Rpc"}

-----------------------------------------------------------------------------
(* Specifications: one per component; the other components stay idle.      *)

RouteNext ==
    \/ FetchTokenData /\ UNCHANGED <<swapVars, calcVars, serviceVars, httpVars>>
    \/ IssueDirect /\ UNCHANGED <<swapVars, calcVars, serviceVars, httpVars>>
    \/ CompleteDirect /\ UNCHANGED <<swapVars, calcVars, serviceVars, httpVars>>
    \/ IssueLegOne /\ UNCHANGED <<swapVars, calcVars, serviceVars, httpVars>>
    \/ CompleteLegOne /\ UNCHANGED <<swapVars, calcVars, serviceVars, httpVars>>
    \/ IssueLegTwo /\ UNCHANGED <<swapVars, calcVars, serviceVars, httpVars>>
    \/ CompleteLegTwo /\ UNCHANGED <<swapVars, calcVars, serviceVars, httpVars>>

SpecRouteInit == RouteInit /\ SwapIdle /\ CalcIdle /\ ServiceIdle /\ HttpIdle

SpecRoute == SpecRouteInit /\ [][RouteNext]_vars

SwapNext ==
    \/ SwapCall /\ UNCHANGED <<routeVars, calcVars, serviceVars, httpVars>>
    \/ SwapSend /\ UNCHANGED <<routeVars, calcVars, serviceVars, httpVars>>
    \/ SwapWait /\ UNCHANGED <<routeVars, calcVars, serviceVars, httpVars>>
    \/ SwapNextRequest /\ UNCHANGED <<routeVars, calcVars, serviceVars, httpVars>>
    \/ (\E h \in Hashes : Mine(h))
          /\ UNCHANGED <<routeVars, calcVars, serviceVars, httpVars>>
    \/ Elapse /\ UNCHANGED <<routeVars, calcVars, serviceVars, httpVars>>
    \/ (\E h \in Hashes : Poll(h))
          /\ UNCHANGED <<routeVars, calcVars, serviceVars, httpVars>>

SpecSwapInit == RouteIdle /\ SwapInit /\ CalcIdle /\ ServiceIdle /\ HttpIdle

SpecSwap == SpecSwapInit /\ [][SwapNext]_vars

CalcNext ==
    \/ ExactIn /\ UNCHANGED <<routeVars, swapVars, serviceVars, httpVars>>
    \/ ExactOut /\ UNCHANGED <<routeVars, swapVars, serviceVars, httpVars>>

SpecCalcInit == RouteIdle /\ SwapIdle /\ CalcInit /\ ServiceIdle /\ HttpIdle

SpecCalc == SpecCalcInit /\ [][CalcNext]_vars

ServiceNext ==
    \/ NewUniswap /\ UNCHANGED <<routeVars, swapVars, calcVars, httpVars>>
    \/ NewEthereum /\ UNCHANGED <<routeVars, swapVars, calcVars, httpVars>>
    \/ Call /\ UNCHANGED <<routeVars, swapVars, calcVars, httpVars>>

SpecServiceInit == RouteIdle /\ SwapIdle /\ CalcIdle /\ ServiceInit /\ HttpIdle

SpecService == SpecServiceInit /\ [][ServiceNext]_vars

HttpNext ==
    \/ HandleRequest /\ UNCHANGED <<routeVars, swapVars, calcVars, serviceVars>>
    \/ Respond /\ UNCHANGED <<routeVars, swapVars, calcVars, serviceVars>>
    \/ NextRequest /\ UNCHANGED <<routeVars, swapVars, calcVars, serviceVars>>

SpecHttpInit == RouteIdle /\ SwapIdle /\ CalcIdle /\ ServiceIdle /\ HttpInit

SpecHttp == SpecHttpInit /\ [][HttpNext]_vars

====
